---------------------------- MODULE Spec2Model ----------------------------
(***************************************************************************)
(* The day-by-day simulation loop of the Aintivirus tokenomics simulator   *)
(* (src/ainti.py).  The script is a Streamlit page: every interaction      *)
(* with a widget runs it again from the top with the widgets' new values.  *)
(*                                                                         *)
(* Numbers.  The script computes in binary floating point.  The model      *)
(* computes the same expressions, in the same order, over exact rationals  *)
(* <<numerator, denominator>> in lowest terms, with <<1, 0>> for float     *)
(* infinity; rounding is not modelled.  The 365th root of line 73 is       *)
(* irrational unless the yearly change is 0, so the model compresses the   *)
(* year into one step: the per-step growth factor is 1 + pct/100, which    *)
(* is exact at pct = 0 and falls or rises with pct as the root does.       *)
(***************************************************************************)
EXTENDS Integers, Sequences, FiniteSets

VARIABLES
    initial_price,          \* line 20, a rational
    price_change_pct,       \* line 21, an integer percentage
    days_to_simulate,       \* line 22
    service_volumes,        \* lines 46-59, service -> dollars per day
    pc,                     \* position in the script
    day,                    \* line 85: position in days of the next iteration
    supply,                 \* line 71
    cumulative_burn,        \* line 83
    price_no_burn,          \* line 76
    price_with_burn,        \* line 77
    remaining_supply,       \* line 78
    cumulative_burned,      \* line 79
    daily_burned_total,     \* line 80
    daily_burn_by_service,  \* line 81
    days,                   \* line 70
    df,                     \* lines 108-119
    lastRun                 \* history: the table of the previous run of the
                            \* script when it had the same widget values

vars == <<initial_price, price_change_pct, days_to_simulate, service_volumes,
          pc, day, supply, cumulative_burn, price_no_burn, price_with_burn,
          remaining_supply, cumulative_burned, daily_burned_total,
          daily_burn_by_service, days, df, lastRun>>

---------------------------------------------------------------------------
(* Exact rational arithmetic standing for the script's float arithmetic.   *)

Abs(n) == IF n < 0 THEN -n ELSE n

RECURSIVE GCD(_, _)
GCD(a, b) == IF b = 0 THEN a ELSE GCD(b, a % b)

Norm(r) ==
    IF r[1] = 0 THEN <<0, 1>>
    ELSE LET g == GCD(Abs(r[1]), r[2]) IN <<r[1] \div g, r[2] \div g>>

Zero == <<0, 1>>
One == <<1, 1>>
Inf == <<1, 0>>

Rat(n) == <<n, 1>>

RatAdd(a, b) ==
    LET g == GCD(a[2], b[2])
    IN  Norm(<<a[1] * (b[2] \div g) + b[1] * (a[2] \div g),
               (a[2] \div g) * b[2]>>)

RatNeg(a) == <<-a[1], a[2]>>

RatSub(a, b) == RatAdd(a, RatNeg(b))

RatMul(a, b) ==
    IF a[1] = 0 \/ b[1] = 0 THEN Zero
    ELSE LET g1 == GCD(Abs(a[1]), b[2])
             g2 == GCD(Abs(b[1]), a[2])
         IN  <<(a[1] \div g1) * (b[1] \div g2), (a[2] \div g2) * (b[2] \div g1)>>

\* x / inf is 0.0 and x / 0.0 is inf in float arithmetic.
RatDiv(a, b) ==
    IF b = Inf THEN Zero
    ELSE IF b[1] = 0 THEN Inf
    ELSE IF b[1] > 0 THEN RatMul(a, <<b[2], b[1]>>)
    ELSE RatMul(a, <<-b[2], -b[1]>>)

RatLe(a, b) ==
    IF b = Inf THEN TRUE
    ELSE IF a = Inf THEN FALSE
    ELSE RatSub(b, a)[1] >= 0

RatLt(a, b) == ~RatLe(b, a)

RatMax(a, b) == IF RatLe(b, a) THEN a ELSE b

RatMin(a, b) == IF RatLe(a, b) THEN a ELSE b

RECURSIVE RatPow(_, _)
RatPow(g, n) == IF n = 0 THEN One ELSE RatMul(g, RatPow(g, n - 1))

---------------------------------------------------------------------------
(* Constants of the script.                                                *)

FIXED_SUPPLY == 100000000

Fixed == Rat(FIXED_SUPPLY)

Services == <<"Mixer", "Merch-Shop", "eSIM", "Gift Card">>

ServiceSet == {Services[i] : i \in 1..Len(Services)}

burn_rates ==
    [s \in ServiceSet |->
        IF s = "Merch-Shop" THEN <<1, 5>> ELSE <<1, 50>>]

---------------------------------------------------------------------------
(* The widgets' values (lines 20-22 and 51-59).  The widgets admit prices  *)
(* from 0.01 up, yearly changes from -50 to 200 and volumes from 0 to      *)
(* 1,000,000 in steps of 5,000; the horizon slider (30..1460 days) is      *)
(* scaled down to 1..MaxDays.                                              *)

MaxDays == 3

InitialPrices == {<<1, 100>>, <<1, 50>>, <<1, 1>>, <<5, 2>>}

PriceChangePcts == {-50, 0, 100, 200}

VolumeChoices ==
    [s \in ServiceSet |->
        IF s = "Gift Card" THEN {0, 500000} ELSE {0, 1000000}]

Volumes ==
    {v \in [ServiceSet -> {0, 500000, 1000000}] :
        \A s \in ServiceSet : v[s] \in VolumeChoices[s]}

NoVolume(v) == \A s \in ServiceSet : v[s] = 0

SmallServicesAlike(v) ==
    \/ \A s \in ServiceSet \ {"Merch-Shop"} : v[s] = 0
    \/ \A s \in ServiceSet \ {"Merch-Shop"} : v[s] # 0

\* The sample of widget settings the model runs.  Exact arithmetic on
\* 100,000,000 tokens leaves TLC's integers little room for denominators,
\* so settings that burn tokens are sampled at the two lowest prices, where
\* the burn is largest, with a flat or falling market (at the lowest price
\* and a falling market, where supply reaches the floor, with the three 2%
\* services all off or all on), and with a rising market for the shop
\* alone; settings that burn nothing are sampled at every price and yearly
\* change.
Sampled(c) ==
    \/ NoVolume(c.service_volumes)
    \/ /\ c.initial_price \in {<<1, 100>>, <<1, 50>>}
       /\ c.price_change_pct = 0
    \/ /\ c.initial_price = <<1, 50>>
       /\ c.price_change_pct = -50
    \/ /\ c.initial_price = <<1, 100>>
       /\ c.price_change_pct = -50
       /\ SmallServicesAlike(c.service_volumes)
    \/ /\ c.initial_price = <<1, 100>>
       /\ c.price_change_pct = 100
       /\ \A s \in ServiceSet \ {"Merch-Shop"} : c.service_volumes[s] = 0

Configs ==
    {c \in [initial_price : InitialPrices,
            price_change_pct : PriceChangePcts,
            days_to_simulate : 1..MaxDays,
            service_volumes : Volumes] : Sampled(c)}

Config ==
    [initial_price |-> initial_price,
     price_change_pct |-> price_change_pct,
     days_to_simulate |-> days_to_simulate,
     service_volumes |-> service_volumes]

---------------------------------------------------------------------------
(* The expressions of the simulation (lines 70-105).                       *)

\* Days with the stop value one short: np.arange(1, days_to_simulate)
DaysShort(n) == [i \in 1..(n - 1) |-> i]

\* line 70: np.arange(1, days_to_simulate + 1)
Days(n) == [i \in 1..n |-> i]

\* line 73, with the year compressed into one step
daily_growth_factor(pct) == Norm(<<100 + pct, 100>>)

\* PriceNoBurn with * written for **
PriceNoBurnLinear(initial, g, d) == RatMul(initial, RatMul(g, Rat(d)))

\* line 86
PriceNoBurn(initial, g, d) == RatMul(initial, RatPow(g, d))

\* PriceWithBurn without the scarcity premium
PriceWithBurnFlat(pnb, s) == IF s[1] > 0 THEN pnb ELSE Inf

\* line 87
PriceWithBurn(pnb, s) ==
    IF s[1] > 0 THEN RatMul(pnb, RatDiv(Fixed, s)) ELSE Inf

\* line 92
BurnAmount(volume, burn_rate, pwb) ==
    RatDiv(RatMul(Rat(volume), burn_rate), pwb)

\* lines 90-94: one amount per service of service_volumes
BurnsToday(volumes, pwb) ==
    [s \in DOMAIN volumes |-> BurnAmount(volumes[s], burn_rates[s], pwb)]

\* lines 89 and 93: the running total, in the services' order
RECURSIVE BurnedUpTo(_, _)
BurnedUpTo(burns, i) ==
    IF i = 0 THEN Zero
    ELSE RatAdd(BurnedUpTo(burns, i - 1), burns[Services[i]])

\* BurnedTodayTotal with the last service's amount recorded but not added
BurnedTodaySkipLast(burns) == BurnedUpTo(burns, Len(Services) - 1)

BurnedTodayTotal(burns) == BurnedUpTo(burns, Len(Services))

\* NextSupply without the clamp of line 97
NextSupplyNoClamp(s, burned) == RatSub(s, burned)

\* NextSupply with the floor at 0 instead of 1
NextSupplyFloorZero(s, burned) == RatMax(RatSub(s, burned), Zero)

\* lines 96-97
NextSupply(s, burned) == RatMax(RatSub(s, burned), One)

\* NextCumulativeBurn limited to the tokens that can leave the supply
CumulativeBurnActual(c, burned) ==
    RatMin(RatAdd(c, burned), RatSub(Fixed, One))

\* NextCumulativeBurn that stops counting once the fixed supply is used up
CumulativeBurnGuarded(c, burned) ==
    IF RatLe(RatAdd(c, burned), Fixed) THEN RatAdd(c, burned) ELSE c

\* NextCumulativeBurn with = written for +=
CumulativeBurnOverwrite(c, burned) == burned

\* line 99
NextCumulativeBurn(c, burned) == RatAdd(c, burned)

NoRun == [ran |-> FALSE]

---------------------------------------------------------------------------
(* The script as a state machine.                                          *)

Init ==
    /\ \E c \in Configs :
         /\ initial_price = c.initial_price
         /\ price_change_pct = c.price_change_pct
         /\ days_to_simulate = c.days_to_simulate
         /\ service_volumes = c.service_volumes
    /\ pc = "start"
    /\ day = 1
    /\ days = <<>>
    /\ supply = Zero
    /\ cumulative_burn = Zero
    /\ price_no_burn = <<>>
    /\ price_with_burn = <<>>
    /\ remaining_supply = <<>>
    /\ cumulative_burned = <<>>
    /\ daily_burned_total = <<>>
    /\ daily_burn_by_service = [s \in ServiceSet |-> <<>>]
    /\ df = [Day |-> <<>>]
    /\ lastRun = NoRun

\* Setup without line 71: supply is whatever the previous run left
SetupKeepSupply ==
    /\ pc = "start"
    /\ days' = Days(days_to_simulate)
    /\ supply' = IF df.Day = <<>> THEN Fixed ELSE supply
    /\ price_no_burn' = <<>>
    /\ price_with_burn' = <<>>
    /\ remaining_supply' = <<>>
    /\ cumulative_burned' = <<>>
    /\ daily_burned_total' = <<>>
    /\ daily_burn_by_service' = [s \in DOMAIN burn_rates |-> <<>>]
    /\ cumulative_burn' = Zero
    /\ day' = 1
    /\ pc' = "loop"
    /\ UNCHANGED <<initial_price, price_change_pct, days_to_simulate,
                   service_volumes, df, lastRun>>

\* lines 70-83
Setup ==
    /\ pc = "start"
    /\ days' = Days(days_to_simulate)
    /\ supply' = Fixed
    /\ price_no_burn' = <<>>
    /\ price_with_burn' = <<>>
    /\ remaining_supply' = <<>>
    /\ cumulative_burned' = <<>>
    /\ daily_burned_total' = <<>>
    /\ daily_burn_by_service' = [s \in DOMAIN burn_rates |-> <<>>]
    /\ cumulative_burn' = Zero
    /\ day' = 1
    /\ pc' = "loop"
    /\ UNCHANGED <<initial_price, price_change_pct, days_to_simulate,
                   service_volumes, df, lastRun>>

\* lines 85-105: one iteration of the loop
DayStep ==
    /\ pc = "loop"
    /\ day <= Len(days)
    /\ LET price_no_burn_today ==
               PriceNoBurn(initial_price,
                           daily_growth_factor(price_change_pct), days[day])
           price_with_burn_today == PriceWithBurn(price_no_burn_today, supply)
           burns == BurnsToday(service_volumes, price_with_burn_today)
           burned_today_total == BurnedTodayTotal(burns)
           supply_after == NextSupply(supply, burned_today_total)
           cumulative_after ==
               NextCumulativeBurn(cumulative_burn, burned_today_total)
       IN  /\ supply' = supply_after
           /\ cumulative_burn' = cumulative_after
           /\ daily_burn_by_service' =
                  [s \in DOMAIN daily_burn_by_service |->
                      IF s \in DOMAIN burns
                      THEN Append(daily_burn_by_service[s], burns[s])
                      ELSE daily_burn_by_service[s]]
           /\ price_no_burn' = Append(price_no_burn, price_no_burn_today)
           /\ price_with_burn' = Append(price_with_burn, price_with_burn_today)
           /\ remaining_supply' = Append(remaining_supply, supply_after)
           /\ cumulative_burned' = Append(cumulative_burned, cumulative_after)
           /\ daily_burned_total' =
                  Append(daily_burned_total, burned_today_total)
    /\ day' = day + 1
    /\ UNCHANGED <<initial_price, price_change_pct, days_to_simulate,
                   service_volumes, pc, days, df, lastRun>>

\* lines 108-119, once the loop has run off the end of days
BuildDataFrame ==
    /\ pc = "loop"
    /\ day > Len(days)
    /\ df' = [Day |-> days,
              NoBurn |-> price_no_burn,
              WithBurn |-> price_with_burn,
              Remaining |-> remaining_supply,
              Daily |-> daily_burned_total,
              Cumulative |-> cumulative_burned,
              Burned |-> daily_burn_by_service]
    /\ pc' = "done"
    /\ UNCHANGED <<initial_price, price_change_pct, days_to_simulate,
                   service_volumes, day, days, supply, cumulative_burn,
                   price_no_burn, price_with_burn, remaining_supply,
                   cumulative_burned, daily_burned_total,
                   daily_burn_by_service, lastRun>>

\* lines 20-22 and 49-59: a widget interaction runs the script again.  The
\* previous run's values are left in place until Setup assigns them anew.
Rerun ==
    /\ pc = "done"
    /\ \E c \in Configs :
         /\ initial_price' = c.initial_price
         /\ price_change_pct' = c.price_change_pct
         /\ days_to_simulate' = c.days_to_simulate
         /\ service_volumes' = c.service_volumes
         /\ lastRun' = IF c = Config
                       THEN [ran |-> TRUE, config |-> Config, df |-> df]
                       ELSE NoRun
    /\ pc' = "start"
    /\ UNCHANGED <<day, days, supply, cumulative_burn, price_no_burn,
                   price_with_burn, remaining_supply, cumulative_burned,
                   daily_burned_total, daily_burn_by_service, df>>

Next == Setup \/ DayStep \/ BuildDataFrame \/ Rerun

Spec == Init /\ [][Next]_vars

\* One run of the script, from the widgets' values to the table.  The
\* script is straight-line code around a for loop over days; nothing in it
\* waits or blocks, so each step that can be taken is taken.  DayStep is
\* the only step that advances day and it can be taken whenever its guard
\* holds, so the loop's fairness is stated on its guard and counter.
RunNext == Setup \/ DayStep \/ BuildDataFrame

LoopAdvances == pc = "loop" /\ day <= Len(days) /\ day' = day + 1

RunSpec ==
    /\ Init
    /\ [][RunNext]_vars
    /\ WF_vars(Setup)
    /\ WF_day(LoopAdvances)
    /\ WF_vars(BuildDataFrame)

---------------------------------------------------------------------------
(* What the claims speak of, read off the recorded columns.                *)

Recorded == Len(remaining_supply)

Running == pc \in {"loop", "done"}

\* the supply as it stood before day d's burn was subtracted
SupplyBefore(d) == IF d = 1 THEN Fixed ELSE remaining_supply[d - 1]

\* on day d the clamp max(supply, 1) changed the value of supply
ClampRaised(d) ==
    RatLt(RatSub(SupplyBefore(d), daily_burned_total[d]), One)

Finite(x) == x[2] > 0

SomeBurning ==
    \E s \in ServiceSet :
        RatLt(Zero, RatMul(Rat(service_volumes[s]), burn_rates[s]))

RECURSIVE SumOver(_, _)
SumOver(S, f) ==
    IF S = {} THEN Zero
    ELSE LET x == CHOOSE y \in S : TRUE
         IN  RatAdd(f[x], SumOver(S \ {x}, f))

\* seq[i] + (seq[i+1] + (... + seq[d]))
RECURSIVE SumFrom(_, _, _)
SumFrom(seq, i, d) ==
    IF i > d THEN Zero ELSE RatAdd(seq[i], SumFrom(seq, i + 1, d))

BurnsOn(d) == [s \in ServiceSet |-> daily_burn_by_service[s][d]]

---------------------------------------------------------------------------
(* The claims.                                                             *)

\* C1: every recorded Remaining Supply is at least 1, the value of day 1
\* is at most the fixed supply, and the value of each later day is at most
\* that of the day before.
C1_SupplyFloorAndMonotone ==
    \A d \in 1..Recorded :
        /\ RatLe(One, remaining_supply[d])
        /\ RatLe(remaining_supply[d], SupplyBefore(d))

C1_Witness ==
    /\ pc = "done"
    /\ Recorded >= 2
    /\ RatLt(remaining_supply[1], Fixed)
    /\ RatLt(remaining_supply[2], remaining_supply[1])

C3_FloorAbsorbing ==
    Running =>
        \A d \in 1..(Recorded - 1) :
            remaining_supply[d] = One =>
                /\ remaining_supply[d + 1] = One
                /\ cumulative_burned[d + 1] =
                       RatAdd(cumulative_burned[d], daily_burned_total[d + 1])
                /\ SomeBurning =>
                       RatLt(cumulative_burned[d], cumulative_burned[d + 1])

C3_Witness ==
    /\ pc = "done"
    /\ \E d \in 1..(Recorded - 1) :
           /\ remaining_supply[d] = One
           /\ remaining_supply[d + 1] = One
           /\ RatLt(Zero, daily_burned_total[d + 1])
           /\ RatLt(Fixed, cumulative_burned[d + 1])

\* C4: each day's Price with Burn is that day's no-burn price times fixed
\* supply over the supply as it stood before the day's burn (so the two
\* prices are equal on day 1), and each service's burn of the day, priced
\* at that Price with Burn, is its volume x burn rate.
C4_PriceUsesSupplyBeforeBurn ==
    Running =>
        \A d \in 1..Recorded :
            /\ RatDiv(price_with_burn[d], price_no_burn[d]) =
                   RatDiv(Fixed, SupplyBefore(d))
            /\ d = 1 => price_with_burn[d] = price_no_burn[d]
            /\ \A s \in ServiceSet :
                   RatMul(daily_burn_by_service[s][d], price_with_burn[d]) =
                       RatMul(Rat(service_volumes[s]), burn_rates[s])

C4_Witness ==
    /\ pc = "done"
    /\ Recorded >= 2
    /\ RatLt(remaining_supply[1], Fixed)
    /\ RatLt(price_no_burn[2], price_with_burn[2])
    /\ \E s \in ServiceSet : RatLt(Zero, daily_burn_by_service[s][2])

TableComplete ==
    /\ Len(df.Day) = days_to_simulate
    /\ \A i \in 1..Len(df.Day) : df.Day[i] = i
    /\ Len(df.NoBurn) = days_to_simulate
    /\ Len(df.WithBurn) = days_to_simulate
    /\ Len(df.Remaining) = days_to_simulate
    /\ Len(df.Daily) = days_to_simulate
    /\ Len(df.Cumulative) = days_to_simulate
    /\ DOMAIN df.Burned = ServiceSet
    /\ \A s \in ServiceSet : Len(df.Burned[s]) = days_to_simulate

\* C5: every run of the script reaches its end, and the table it has then
\* built holds exactly days_to_simulate rows, with Day 1, 2, ... in
\* increasing order and every column of that length.
C5_TerminatesWithOneRowPerDay ==
    /\ [](pc = "done" => TableComplete)
    /\ <>(pc = "done")

C5_Witness ==
    /\ pc = "done"
    /\ days_to_simulate = MaxDays
    /\ Len(df.Day) = MaxDays
    /\ df.Day[MaxDays] = MaxDays

\* C6: the Daily Burned Tokens of each day is the sum of the per-service
\* amounts recorded for that day; every service with a burn rate, and no
\* other, has exactly one recorded amount per day.
C6_DailyTotalIsSumOfServices ==
    /\ DOMAIN daily_burn_by_service = DOMAIN burn_rates
    /\ \A s \in DOMAIN daily_burn_by_service :
           Len(daily_burn_by_service[s]) = Len(daily_burned_total)
    /\ \A d \in 1..Len(daily_burned_total) :
           daily_burned_total[d] = SumOver(ServiceSet, BurnsOn(d))

C6_Witness ==
    /\ pc = "done"
    /\ \E d \in 1..Len(daily_burned_total) :
           /\ \A s \in ServiceSet : RatLt(Zero, daily_burn_by_service[s][d])
           /\ \A s \in ServiceSet :
                  RatLt(daily_burn_by_service[s][d], daily_burned_total[d])

\* C7: Cumulative Burned never decreases from one day to the next, and on
\* day d it is the sum of the Daily Burned Tokens of days 1..d.
C7_CumulativeIsRunningSum ==
    \A d \in 1..Len(cumulative_burned) :
        /\ d > 1 => RatLe(cumulative_burned[d - 1], cumulative_burned[d])
        /\ cumulative_burned[d] = SumFrom(daily_burned_total, 1, d)

C7_Witness ==
    /\ pc = "done"
    /\ Len(cumulative_burned) >= 3
    /\ RatLt(Zero, cumulative_burned[1])
    /\ RatLt(cumulative_burned[1], cumulative_burned[2])
    /\ RatLt(cumulative_burned[2], cumulative_burned[3])

\* C8: with every volume 0, on every day all burns and the daily total
\* are 0, Remaining Supply is the fixed supply, Cumulative Burned is 0 and
\* Price with Burn equals the no-burn price; if the yearly change is 0 as
\* well, the no-burn price is the initial price on every day.
C8_NoVolumeNoBurn ==
    (Running /\ NoVolume(service_volumes)) =>
        \A d \in 1..Recorded :
            /\ \A s \in ServiceSet : daily_burn_by_service[s][d] = Zero
            /\ daily_burned_total[d] = Zero
            /\ remaining_supply[d] = Fixed
            /\ cumulative_burned[d] = Zero
            /\ price_with_burn[d] = price_no_burn[d]
            /\ price_change_pct = 0 => price_no_burn[d] = initial_price

C8_Witness ==
    /\ pc = "done"
    /\ NoVolume(service_volumes)
    /\ price_change_pct = 0
    /\ Recorded = MaxDays
    /\ price_no_burn[MaxDays] = initial_price
    /\ remaining_supply[MaxDays] = Fixed

\* C9: a run of the script with the same widget values as the run before
\* it builds the same table, whatever the run before left behind.
C9_SameConfigSameTable ==
    (pc = "done" /\ lastRun.ran) =>
        /\ lastRun.config = Config
        /\ df = lastRun.df

C9_Witness ==
    /\ pc = "done"
    /\ lastRun.ran
    /\ Len(df.Day) >= 2
    /\ RatLt(df.Remaining[2], Fixed)
    /\ RatLt(Zero, df.Cumulative[1])

\* C10: whenever a day's price is about to be computed the running supply
\* is between 1 and the fixed supply, so every recorded Price with Burn is
\* finite and at least the day's no-burn price, and every recorded burn
\* amount is finite and not negative.
C10_SupplyPositiveAtPricing ==
    /\ pc = "loop" => (RatLe(One, supply) /\ RatLe(supply, Fixed))
    /\ \A d \in 1..Len(price_with_burn) :
           /\ Finite(price_with_burn[d])
           /\ RatLe(price_no_burn[d], price_with_burn[d])
           /\ \A s \in ServiceSet :
                  /\ Finite(daily_burn_by_service[s][d])
                  /\ RatLe(Zero, daily_burn_by_service[s][d])

C10_Witness ==
    /\ pc = "loop"
    /\ day <= Len(days)
    /\ day > 1
    /\ supply = One
    /\ Finite(price_with_burn[day - 1])

====
